---- MODULE Spec2Model ----
(***************************************************************************)
(* Model of DenoScript's PermissionManager.                                *)
(*                                                                         *)
(* The repository holds two implementations of the registry:               *)
(*   - src/PermissionManager.ts (the same class is repeated in src/mod.ts):*)
(*     the tracked requests are an Array of promises, descriptors are      *)
(*     built by the Permission factory (src/unnamed/part_002);             *)
(*   - src/unnamed/part_000: the tracked requests are a Map keyed by the   *)
(*     permission name, descriptors are built by a local switch.           *)
(* Spec models the first one, SpecMap the second one.  Both run on the     *)
(* same variables; the host (Deno.permissions) is the environment.         *)
(* SpecCan and SpecMapCan add can(); SpecDeep follows the first one over   *)
(* longer runs of a narrower caller; SpecLive makes the continuation of a  *)
(* settle()/ensure() call a step of its own, under the event loop's        *)
(* fairness; SpecDesc applies the descriptor factory alone.                *)
(***************************************************************************)
EXTENDS Integers, Sequences, FiniteSets, TLC

VARIABLES
  instance,          \* PermissionManager.instance (static): NoInstance or an object id
  got,               \* the object ids successive getInstance() calls returned
  this_permissions,  \* object id -> its `permissions` field (Array / Map entries)
  requests,          \* the host's log of Deno.permissions.request calls
  calls,             \* settle()/wait()/ensure() calls, pending or returned
  canResult,         \* the last can() call: what it queried and what it returned
  accumulated,       \* history: per accumulation call, the descriptors it was made with
  returned,          \* the object the last accumulation method returned to its caller
  built              \* the last descriptor factory call: its arguments and what it returned

vars == <<instance, got, this_permissions, requests, calls, canResult, accumulated,
          returned, built>>

\* the handles callers hold: every object getInstance() has returned
handles == {got[i] : i \in 1..Len(got)}

(***************************************************************************)
(* Bounds of the exploration.                                              *)
(***************************************************************************)
\* getInstance() calls, accumulation calls, settle()/ensure() calls and host
\* answers in a run
MaxOps == 5

\* private static instance, before the first getInstance(): no object
NoInstance == 0
Undefined == "undefined"

\* const permissions = ["env", "read", "write", "net", "run", "hrtime", "ffi"]
permissions == <<"env", "read", "write", "net", "run", "hrtime", "ffi">>

PName == {permissions[i] : i \in 1..Len(permissions)}

\* Deno.PermissionState, plus the promise states of a request
GrantState == {"granted", "denied", "prompt"}

(***************************************************************************)
(* Arguments.  A MaybeArray<string> argument is a record: isArray tells    *)
(* whether an array was passed, vals holds its elements (one element, the  *)
(* value or Undefined, when it is no array).                               *)
(***************************************************************************)
Scalar(v) == [isArray |-> FALSE, vals |-> <<v>>]
Array(s)  == [isArray |-> TRUE, vals |-> s]

\* the arguments the caller passes to the accumulation methods
InputArgs == {Scalar(Undefined), Scalar("a"), Array(<<"a", "b">>)}

\* the names the caller passes to permission()
InputNames == {"read"}

\* the arguments the caller passes to can()
CanArgs == {Scalar(Undefined), Scalar("a"), Array(<<>>), Array(<<"a", "b">>)}

\* the arguments the caller passes to a shorthand (env, read, write, ...)
ShorthandArgs == {Scalar("a")}

\* the shorthands the caller uses
ShorthandNames == {"read", "write", "hrtime"}

(***************************************************************************)
(* Descriptors.  A Deno.PermissionDescriptor is { name, <field>: value }   *)
(* where the field is path, host, command or variable; { name } alone has  *)
(* no field.                                                               *)
(***************************************************************************)
Descriptor(name, field, value) == [name |-> name, field |-> field, value |-> value]

\* { name }
NameOnly(name) == Descriptor(name, "none", Undefined)

\* the scope a descriptor carries (Undefined: unscoped)
Scope(d) == d.value

\* Permission.env / read / write / net / run / ffi / hrtime applied to one value
PermissionOne(name, v) ==
  CASE name = "env"    -> Descriptor("env", "variable", v)
    [] name = "read"   -> Descriptor("read", "path", v)
    [] name = "write"  -> Descriptor("write", "path", v)
    [] name = "net"    -> Descriptor("net", "host", v)
    [] name = "run"    -> Descriptor("run", "command", v)
    [] name = "ffi"    -> Descriptor("ffi", "path", v)
    [] name = "hrtime" -> NameOnly("hrtime")

\* class Permission: Permission[name](o); an array maps to one descriptor per element
Permission(name, o) ==
  IF name # "hrtime" /\ o.isArray
    THEN Array([i \in 1..Len(o.vals) |-> PermissionOne(name, o.vals[i])])
    ELSE Scalar(PermissionOne(name, o.vals[1]))

\* the elements of s, each kept at its first occurrence only
RECURSIVE Distinct(_)
Distinct(s) ==
  IF s = <<>> THEN <<>>
  ELSE LET r == Distinct(SubSeq(s, 1, Len(s) - 1))
       IN IF \E i \in 1..Len(r) : r[i] = s[Len(s)] THEN r ELSE Append(r, s[Len(s)])

\* a factory that builds a repeated list element once
descDistinct(name, o) ==
  IF o.isArray
    THEN Array(Distinct([i \in 1..Len(o.vals) |-> PermissionOne(name, o.vals[i])]))
    ELSE Scalar(PermissionOne(name, o.vals[1]))

\* function desc(name, o) of PermissionManager.ts
desc(name, o) ==
  IF o.isArray
    THEN Array([i \in 1..Len(o.vals) |->
                 IF name # "hrtime" THEN Permission(name, Scalar(o.vals[i])).vals[1]
                                    ELSE Permission("hrtime", Scalar(Undefined)).vals[1]])
    ELSE IF name # "hrtime" THEN Permission(name, o)
    ELSE Permission("hrtime", Scalar(Undefined))

\* function desc(name, optional) of the Map implementation: the case label
\* "read" || "write" || "ffi" evaluates to "read"
descSwitch(name, optional) ==
  CASE name = "net"  -> Descriptor("net", "host", optional)
    [] name = "run"  -> Descriptor("run", "command", optional)
    [] name = "env"  -> Descriptor("env", "variable", optional)
    [] name = "read" -> Descriptor("read", "path", optional)
    [] OTHER         -> NameOnly(name)

(***************************************************************************)
(* The host: Deno.permissions.  request() is logged in `requests`; each    *)
(* logged request is a promise that the host later resolves to a           *)
(* PermissionStatus or rejects.                                            *)
(***************************************************************************)
\* Deno.permissions.request(desc): a new pending request; its index is its identity
request(reqs, d) == Append(reqs, [desc |-> d, state |-> "pending"])

\* requestPermission testing for "not denied" instead: 'prompt' would count as granted
requestPermissionNotDenied(state) == state # "denied"

\* requestPermission, after the await: req.state === "granted"
requestPermission(state) == state = "granted"

\* query, after the await: req.state === "granted"
query(state) == state = "granted"

\* the promise requestPermission returned for request id
IsPending(id, reqs)  == reqs[id].state = "pending"
IsRejected(id, reqs) == reqs[id].state = "rejected"
Value(id, reqs) == requestPermission(reqs[id].state)

\* the number of requests the host has answered
Answered(reqs) == Cardinality({id \in 1..Len(reqs) : ~IsPending(id, reqs)})

(***************************************************************************)
(* The tracked collection.  An Array and a Map are both kept as the        *)
(* sequence of their entries [key, value] in insertion order; an Array's   *)
(* keys are its indices.                                                   *)
(***************************************************************************)
has(m, k) == \E i \in 1..Len(m) : m[i].key = k
set(m, k, v) ==
  IF has(m, k) THEN [i \in 1..Len(m) |-> IF m[i].key = k THEN [key |-> k, value |-> v] ELSE m[i]]
               ELSE Append(m, [key |-> k, value |-> v])
\* a push that keeps the newest entry only
pushOverwriting(m, v) == <<[key |-> 1, value |-> v]>>
push(m, v) == Append(m, [key |-> Len(m) + 1, value |-> v])
values(m) == [i \in 1..Len(m) |-> m[i].value]
includes(s, x) == \E i \in 1..Len(s) : s[i] = x

\* the "*" argument of pushPermission
Star == Descriptor("*", "none", Undefined)

\* a registry and the host log it writes to, threaded through pushPermission
Reg(perms, reqs) == [perms |-> perms, reqs |-> reqs]

(***************************************************************************)
(* PermissionManager.ts: pushPermission, permission                        *)
(***************************************************************************)
RECURSIVE pushEachName(_, _)
pushEachName(S, i) ==
  IF i > Len(permissions) THEN S
  ELSE pushEachName(Reg(push(S.perms, Len(S.reqs) + 1),
                        request(S.reqs, NameOnly(permissions[i]))), i + 1)

pushPermission(S, perm) ==
  IF perm.name = "*" THEN pushEachName(S, 1)
  ELSE Reg(push(S.perms, Len(S.reqs) + 1), request(S.reqs, perm))

\* a loop over the values that takes them from the last to the first
RECURSIVE pushEachReversed(_, _, _, _)
pushEachReversed(S, name, vs, i) ==
  IF i > Len(vs) THEN S
  ELSE pushEachReversed(pushPermission(S, desc(name, Scalar(vs[Len(vs) + 1 - i])).vals[1]),
                        name, vs, i + 1)

\* o.map((v) => this.pushPermission(desc(name, v))), from element i on
RECURSIVE pushEach(_, _, _, _)
pushEach(S, name, vs, i) ==
  IF i > Len(vs) THEN S
  ELSE pushEach(pushPermission(S, desc(name, Scalar(vs[i])).vals[1]), name, vs, i + 1)

\* permission(name, o): the registry after the call
permissionResult(S, name, o) ==
  IF o.isArray THEN pushEach(S, name, o.vals, 1)
  ELSE pushPermission(S, desc(name, o).vals[1])

(***************************************************************************)
(* Map implementation: pushPermission                                      *)
(***************************************************************************)
RECURSIVE pushEachNameMap(_, _)
pushEachNameMap(S, i) ==
  IF i > Len(permissions) THEN S
  ELSE IF has(S.perms, permissions[i]) THEN pushEachNameMap(S, i + 1)
  ELSE pushEachNameMap(Reg(set(S.perms, permissions[i], Len(S.reqs) + 1),
                           request(S.reqs, NameOnly(permissions[i]))), i + 1)

pushPermissionMap(S, perm) ==
  IF perm.name = "*" THEN pushEachNameMap(S, 1)
  ELSE IF ~has(S.perms, perm.name)
    THEN Reg(set(S.perms, perm.name, Len(S.reqs) + 1), request(S.reqs, perm))
  ELSE S

(***************************************************************************)
(* settle / wait / ensure                                                  *)
(***************************************************************************)
\* a join that fulfils as soon as one promise is fulfilled
PromiseAllFirstFulfilled(ids, reqs) ==
  IF \E i \in 1..Len(ids) : IsRejected(ids[i], reqs) THEN "rejected"
  ELSE IF ids # <<>> /\ \A i \in 1..Len(ids) : IsPending(ids[i], reqs) THEN "pending"
  ELSE "fulfilled"

\* Promise.all over tracked promises: rejects with the first rejection,
\* fulfils once every promise is fulfilled
PromiseAll(ids, reqs) ==
  IF \E i \in 1..Len(ids) : IsRejected(ids[i], reqs) THEN "rejected"
  ELSE IF \E i \in 1..Len(ids) : IsPending(ids[i], reqs) THEN "pending"
  ELSE "fulfilled"

\* settle looking for a grant instead of the absence of a denial
settleValueAnyGranted(promises) == includes(promises, TRUE)

\* return !promises.includes(false)
settleValue(promises) == ~includes(promises, FALSE)

\* what a settle()/wait() call over the promises `ids` has done so far
settleOutcome(ids, reqs) ==
  CASE PromiseAll(ids, reqs) = "rejected" -> "rejected"
    [] PromiseAll(ids, reqs) = "pending"  -> "pending"
    [] OTHER -> IF settleValue([i \in 1..Len(ids) |-> Value(ids[i], reqs)])
                  THEN "true" ELSE "false"

\* ensure with the negation lost: throws when settle() resolved true
ensureOutcomeInverted(settled) ==
  CASE settled = "rejected" -> "rejected"
    [] settled = "pending"  -> "pending"
    [] OTHER -> IF settled = "true" THEN "PermissionDenied" ELSE "ok"

\* if (!(await this.settle())) throw new Error("Permission denied")
ensureOutcome(settled) ==
  CASE settled = "rejected" -> "rejected"
    [] settled = "pending"  -> "pending"
    [] OTHER -> IF ~(settled = "true") THEN "PermissionDenied" ELSE "ok"

(***************************************************************************)
(* can                                                                     *)
(***************************************************************************)
\* the descriptors can(n, o) queries the host for
canQueries(n, o) ==
  IF o.isArray THEN [i \in 1..Len(o.vals) |-> desc(n, Scalar(o.vals[i])).vals[1]]
  ELSE <<desc(n, o).vals[1]>>

\* the value can(n, o) resolves to when the host answers the queries with `states`
canValue(o, states) ==
  IF o.isArray THEN includes([i \in 1..Len(states) |-> query(states[i])], FALSE)
  ELSE query(states[1])

NoCan == [n |-> "none", o |-> Scalar(Undefined), queried |-> <<>>, states |-> <<>>, result |-> FALSE]

\* no descriptor factory call yet
NoBuilt == [fn |-> "none", name |-> "none", o |-> Scalar(Undefined), result |-> Array(<<>>)]

(***************************************************************************)
(* State after program start: no PermissionManager has been constructed.   *)
(***************************************************************************)
Init ==
  /\ instance = NoInstance
  /\ got = <<>>
  /\ this_permissions = <<>>
  /\ requests = <<>>
  /\ calls = <<>>
  /\ canResult = NoCan
  /\ accumulated = <<>>
  /\ returned = NoInstance
  /\ built = NoBuilt

\* a getInstance() that constructs a manager on every call
getInstanceNew ==
  /\ this_permissions' = Append(this_permissions, <<>>)
  /\ instance' = Len(this_permissions) + 1
  /\ got' = Append(got, instance')
  /\ UNCHANGED <<requests, calls, canResult, accumulated, returned, built>>

\* static getInstance(): constructs the manager on the first call
getInstance ==
  /\ IF instance = NoInstance
       THEN /\ this_permissions' = Append(this_permissions, <<>>)
            /\ instance' = Len(this_permissions) + 1
       ELSE UNCHANGED <<this_permissions, instance>>
  /\ got' = Append(got, instance')
  /\ UNCHANGED <<requests, calls, canResult, accumulated, returned, built>>

\* what the caller asks for, as kind and scope (hrtime has no scope)
Asked(name, o) ==
  [i \in 1..Len(o.vals) |->
     [name |-> name, scope |-> IF name = "hrtime" THEN Undefined ELSE o.vals[i]]]
AskedAll == [name |-> "*", scope |-> Undefined]

\* an accumulation call made with the descriptors ds that leaves the registry
\* and the host log as S
Accumulate(self, ds, S) ==
  /\ this_permissions' = [this_permissions EXCEPT ![self] = S.perms]
  /\ requests' = S.reqs
  /\ accumulated' = Append(accumulated, ds)
  /\ returned' = self
  /\ UNCHANGED <<instance, got, calls, canResult, built>>

This(self) == Reg(this_permissions[self], requests)

(***************************************************************************)
(* PermissionManager.ts: the accumulation methods                          *)
(***************************************************************************)
permission(self, name, o) ==
  Accumulate(self, Asked(name, o), permissionResult(This(self), name, o))

all(self)      == Accumulate(self, <<AskedAll>>, pushPermission(This(self), Star))
env(self, v)   == permission(self, "env", v)
read(self, v)  == permission(self, "read", v)
write(self, v) == permission(self, "write", v)
net(self, v)   == permission(self, "net", v)
run(self, v)   == permission(self, "run", v)
ffi(self, v)   == permission(self, "ffi", v)
hrtime(self)   == permission(self, "hrtime", Scalar(Undefined))

\* the shorthand called `name`, applied to v (hrtime takes no argument)
shorthand(self, name, v) ==
  CASE name = "env"    -> env(self, v)
    [] name = "read"   -> read(self, v)
    [] name = "write"  -> write(self, v)
    [] name = "net"    -> net(self, v)
    [] name = "run"    -> run(self, v)
    [] name = "ffi"    -> ffi(self, v)
    [] name = "hrtime" -> hrtime(self)

\* can written to track what it queries, as an accumulation would
canTracking(self, n, o) ==
  /\ \E states \in [1..Len(canQueries(n, o)) -> GrantState] :
       canResult' = [n |-> n, o |-> o, queried |-> canQueries(n, o),
                     states |-> states, result |-> canValue(o, states)]
  /\ this_permissions' =
       [this_permissions EXCEPT ![self] = permissionResult(This(self), n, o).perms]
  /\ requests' = permissionResult(This(self), n, o).reqs
  /\ UNCHANGED <<instance, got, returned, built, calls, accumulated>>

\* can(n, o): the host answers each query with some state
can(self, n, o) ==
  /\ \E states \in [1..Len(canQueries(n, o)) -> GrantState] :
       canResult' = [n |-> n, o |-> o, queried |-> canQueries(n, o),
                     states |-> states, result |-> canValue(o, states)]
  /\ UNCHANGED <<instance, got, returned, built, this_permissions, requests, calls, accumulated>>

(***************************************************************************)
(* settle / ensure calls.  A call hands Promise.all the promises tracked   *)
(* at that moment; its continuation runs, as a microtask, as soon as       *)
(* Promise.all has fulfilled or rejected: at once when nothing awaited is  *)
(* pending, else within the host's answer that settles Promise.all.        *)
(***************************************************************************)
\* a continuation that joins whatever the registry tracks when it runs
ContinueLive(c, reqs) ==
  IF c.result # "pending" THEN c
  ELSE [c EXCEPT !.settled = settleOutcome(values(this_permissions[c.self]), reqs),
                 !.result = IF c.op = "ensure"
                              THEN ensureOutcome(settleOutcome(values(this_permissions[c.self]), reqs))
                              ELSE settleOutcome(values(this_permissions[c.self]), reqs)]

\* call c as it stands once the request log is reqs
Continue(c, reqs) ==
  IF c.result # "pending" THEN c
  ELSE [c EXCEPT !.settled = settleOutcome(c.promises, reqs),
                 !.result = IF c.op = "ensure"
                              THEN ensureOutcome(settleOutcome(c.promises, reqs))
                              ELSE settleOutcome(c.promises, reqs)]

\* a settle()/ensure() that answers with the verdict true of an earlier call
\* when there is one
CallCached(self, op) ==
  /\ calls' = Append(calls,
        IF \E c \in 1..Len(calls) : calls[c].settled = "true"
          THEN [self |-> self, op |-> op, promises |-> values(this_permissions[self]),
                settled |-> "true", result |-> IF op = "ensure" THEN "ok" ELSE "true"]
          ELSE Continue([self |-> self, op |-> op,
                         promises |-> values(this_permissions[self]),
                         settled |-> "pending", result |-> "pending"], requests))
  /\ UNCHANGED <<instance, got, returned, built, this_permissions, requests, canResult,
                 accumulated>>

\* a settle()/ensure() that asks the host again for everything tracked and
\* awaits the new requests
CallAskingAgain(self, op) ==
  LET ids == values(this_permissions[self])
      again == [i \in 1..Len(ids) |-> [desc |-> requests[ids[i]].desc, state |-> "pending"]]
      new == [i \in 1..Len(ids) |-> Len(requests) + i]
  IN /\ requests' = requests \o again
     /\ this_permissions' =
          [this_permissions EXCEPT ![self] = [i \in 1..Len(ids) |-> [key |-> i, value |-> new[i]]]]
     /\ calls' = Append(calls, Continue([self |-> self, op |-> op, promises |-> new,
                                         settled |-> "pending", result |-> "pending"],
                                        requests'))
     /\ UNCHANGED <<instance, got, returned, built, canResult, accumulated>>

Call(self, op) ==
  /\ calls' = Append(calls, Continue([self |-> self, op |-> op,
                                      promises |-> values(this_permissions[self]),
                                      settled |-> "pending", result |-> "pending"],
                                     requests))
  /\ UNCHANGED <<instance, got, returned, built, this_permissions, requests, canResult, accumulated>>

settle(self) == Call(self, "settle")
ensure(self) == Call(self, "ensure")

(***************************************************************************)
(* The host answers a pending request.                                     *)
(***************************************************************************)
Answer(id, state) ==
  /\ requests[id].state = "pending"
  /\ requests' = [requests EXCEPT ![id].state = state]
  /\ calls' = [c \in 1..Len(calls) |-> Continue(calls[c], requests')]
  /\ UNCHANGED <<instance, got, returned, built, this_permissions, canResult, accumulated>>

Resolve(id, state) == Answer(id, state)
Reject(id) == Answer(id, "rejected")

(***************************************************************************)
(* Spec: PermissionManager.ts driven by a caller and the host, within the  *)
(* bounds.                                                                 *)
(***************************************************************************)
Ops == Len(got) + Len(accumulated) + Len(calls) + Answered(requests)
MayAct == Ops < MaxOps

Next ==
  \/ MayAct /\ getInstance
  \/ \E self \in handles, name \in InputNames, o \in InputArgs :
       MayAct /\ permission(self, name, o)
  \/ \E self \in handles : MayAct /\ all(self)
  \/ \E self \in handles, name \in ShorthandNames, v \in ShorthandArgs :
       MayAct /\ shorthand(self, name, v)
  \/ \E self \in handles : MayAct /\ settle(self)
  \/ \E self \in handles : MayAct /\ ensure(self)
  \/ \E id \in 1..Len(requests), state \in GrantState : MayAct /\ Resolve(id, state)
  \/ \E id \in 1..Len(requests) : MayAct /\ Reject(id)

Spec == Init /\ [][Next]_vars

(***************************************************************************)
(* SpecCan: PermissionManager.ts queried through can(), for every name,    *)
(* beside a registry that accumulates read("a") and is settled.            *)
(***************************************************************************)
NextCan ==
  \/ MayAct /\ getInstance
  \/ \E self \in handles, n \in PName, o \in CanArgs : can(self, n, o)
  \/ \E self \in handles : MayAct /\ read(self, Scalar("a"))
  \/ \E self \in handles : MayAct /\ settle(self)
  \/ \E id \in 1..Len(requests), state \in GrantState : MayAct /\ Resolve(id, state)
  \/ \E id \in 1..Len(requests) : MayAct /\ Reject(id)

SpecCan == Init /\ [][NextCan]_vars

(***************************************************************************)
(* SpecDeep: PermissionManager.ts over longer runs of a caller that        *)
(* accumulates read("a") only: deep enough for a verdict, a further        *)
(* accumulation, its answer and a second verdict.                          *)
(***************************************************************************)
\* getInstance() calls, accumulation calls, settle()/ensure() calls and host
\* answers in a run of SpecDeep
MaxDeepOps == 7

MayActDeep == Ops < MaxDeepOps

NextDeep ==
  \/ MayActDeep /\ getInstance
  \/ \E self \in handles : MayActDeep /\ read(self, Scalar("a"))
  \/ \E self \in handles : MayActDeep /\ settle(self)
  \/ \E self \in handles : MayActDeep /\ ensure(self)
  \/ \E id \in 1..Len(requests), state \in GrantState : MayActDeep /\ Resolve(id, state)
  \/ \E id \in 1..Len(requests) : MayActDeep /\ Reject(id)

SpecDeep == Init /\ [][NextDeep]_vars

(***************************************************************************)
(* SpecLive: PermissionManager.ts with the continuation of a settle() or   *)
(* ensure() call as a step of its own.  The call suspends at its await;    *)
(* the host answers requests; once Promise.all has fulfilled or rejected,  *)
(* the continuation is a queued microtask, which the event loop runs: weak *)
(* fairness of Resume.  Nothing obliges the host to answer.                *)
(***************************************************************************)
\* settle()/ensure() up to the await of Promise.all
Await(self, op) ==
  /\ calls' = Append(calls, [self |-> self, op |-> op,
                             promises |-> values(this_permissions[self]),
                             settled |-> "pending", result |-> "pending"])
  /\ UNCHANGED <<instance, got, returned, built, this_permissions, requests, canResult,
                 accumulated>>

settleAwait(self) == Await(self, "settle")
ensureAwait(self) == Await(self, "ensure")

\* the host resolves or rejects a pending request
HostAnswer(id, state) ==
  /\ requests[id].state = "pending"
  /\ requests' = [requests EXCEPT ![id].state = state]
  /\ UNCHANGED <<instance, got, returned, built, this_permissions, calls, canResult,
                 accumulated>>

\* the continuation of call c after its await
Resume(c) ==
  /\ calls[c].result = "pending"
  /\ PromiseAll(calls[c].promises, requests) # "pending"
  /\ calls' = [calls EXCEPT ![c] = Continue(calls[c], requests)]
  /\ UNCHANGED <<instance, got, returned, built, this_permissions, requests, canResult,
                 accumulated>>

\* the arguments the caller passes to read() in SpecLive
LiveArgs == {Scalar("a"), Array(<<"a", "b">>)}

NextLive ==
  \/ MayAct /\ getInstance
  \/ \E self \in handles, o \in LiveArgs : MayAct /\ read(self, o)
  \/ \E self \in handles : MayAct /\ settleAwait(self)
  \/ \E self \in handles : MayAct /\ ensureAwait(self)
  \/ \E id \in 1..Len(requests), state \in GrantState \cup {"rejected"} :
       MayAct /\ HostAnswer(id, state)
  \/ \E c \in 1..Len(calls) : Resume(c)

\* the event loop runs every queued continuation
EventLoop == \A c \in 1..MaxOps : WF_vars(c \in 1..Len(calls) /\ Resume(c))

SpecLive == Init /\ [][NextLive]_vars /\ EventLoop

(***************************************************************************)
(* SpecDesc: the descriptor factory alone.  A caller applies desc, or a    *)
(* method of class Permission, to a name and a scope argument; `built`     *)
(* holds the arguments and the value returned.                             *)
(***************************************************************************)
\* the longest scope list passed to the factory
MaxLen == 3

\* the scope values passed to the factory
DescValues == {"a", "b"}

\* the scope arguments passed to the factory: none, one value, a list
DescArgs ==
  {Scalar(Undefined)} \cup {Scalar(v) : v \in DescValues}
    \cup {Array(vs) : vs \in UNION {[1..n -> DescValues] : n \in 0..MaxLen}}

\* desc(name, o)
descCall(name, o) ==
  /\ built' = [fn |-> "desc", name |-> name, o |-> o, result |-> desc(name, o)]
  /\ UNCHANGED <<instance, got, returned, this_permissions, requests, calls, canResult,
                 accumulated>>

\* Permission[name](o); Permission.hrtime takes no argument
PermissionCall(name, o) ==
  /\ name = "hrtime" => o = Scalar(Undefined)
  /\ built' = [fn |-> "Permission", name |-> name, o |-> o, result |-> Permission(name, o)]
  /\ UNCHANGED <<instance, got, returned, this_permissions, requests, calls, canResult,
                 accumulated>>

NextDesc ==
  \/ \E name \in PName, o \in DescArgs : descCall(name, o)
  \/ \E name \in PName, o \in DescArgs : PermissionCall(name, o)

SpecDesc == Init /\ [][NextDesc]_vars

(***************************************************************************)
(* The Map implementation: its accumulation methods take one optional      *)
(* string and build the descriptor in place; can() builds it with the      *)
(* switch; wait() is settle() under its earlier name.                      *)
(***************************************************************************)
AccumulateMap(self, name, field, v) ==
  Accumulate(self, Asked(name, Scalar(v)),
             pushPermissionMap(This(self), Descriptor(name, field, v)))

allMap(self)            == Accumulate(self, <<AskedAll>>, pushPermissionMap(This(self), Star))
envMap(self, variable)  == AccumulateMap(self, "env", "variable", variable)
readMap(self, path)     == AccumulateMap(self, "read", "path", path)
writeMap(self, path)    == AccumulateMap(self, "write", "path", path)
netMap(self, host)      == AccumulateMap(self, "net", "host", host)
runMap(self, command)   == AccumulateMap(self, "run", "command", command)
hrtimeMap(self)         == AccumulateMap(self, "hrtime", "none", Undefined)
ffiMap(self, path)      == AccumulateMap(self, "ffi", "path", path)

shorthandMap(self, name, v) ==
  CASE name = "env"    -> envMap(self, v)
    [] name = "read"   -> readMap(self, v)
    [] name = "write"  -> writeMap(self, v)
    [] name = "net"    -> netMap(self, v)
    [] name = "run"    -> runMap(self, v)
    [] name = "ffi"    -> ffiMap(self, v)
    [] name = "hrtime" -> hrtimeMap(self)

canMap(self, n, o) ==
  /\ \E state \in GrantState :
       canResult' = [n |-> n, o |-> Scalar(o), queried |-> <<descSwitch(n, o)>>,
                     states |-> <<state>>, result |-> query(state)]
  /\ UNCHANGED <<instance, got, returned, built, this_permissions, requests, calls, accumulated>>

wait(self) == Call(self, "settle")

\* the optional string the caller passes to a method of the Map implementation
MapArgs == {Undefined, "a", "b"}

\* the shorthands the caller of the Map implementation uses
MapNames == {"read", "write", "hrtime"}

NextMap ==
  \/ MayAct /\ getInstance
  \/ \E self \in handles : MayAct /\ allMap(self)
  \/ \E self \in handles, name \in MapNames, v \in MapArgs :
       MayAct /\ shorthandMap(self, name, v)
  \/ \E self \in handles : MayAct /\ wait(self)
  \/ \E self \in handles : MayAct /\ ensure(self)
  \/ \E id \in 1..Len(requests), state \in GrantState : MayAct /\ Resolve(id, state)
  \/ \E id \in 1..Len(requests) : MayAct /\ Reject(id)

SpecMap == Init /\ [][NextMap]_vars

(***************************************************************************)
(* SpecMapCan: the Map implementation queried through can(), for every     *)
(* name, beside a registry that accumulates read("a") and is waited for.   *)
(***************************************************************************)
NextMapCan ==
  \/ MayAct /\ getInstance
  \/ \E self \in handles, n \in PName, o \in MapArgs : canMap(self, n, o)
  \/ \E self \in handles : MayAct /\ readMap(self, "a")
  \/ \E self \in handles : MayAct /\ wait(self)
  \/ \E id \in 1..Len(requests), state \in GrantState : MayAct /\ Resolve(id, state)
  \/ \E id \in 1..Len(requests) : MayAct /\ Reject(id)

SpecMapCan == Init /\ [][NextMapCan]_vars

(***************************************************************************)
(* Vocabulary of the properties.                                           *)
(***************************************************************************)
\* everything the caller has asked for so far; all() asks for every kind unscoped
AskedSet ==
  UNION {{accumulated[i][j] : j \in 1..Len(accumulated[i])} : i \in 1..Len(accumulated)}
AskedDescriptors ==
  (AskedSet \ {AskedAll}) \cup
  (IF AskedAll \in AskedSet THEN {[name |-> n, scope |-> Undefined] : n \in PName} ELSE {})

\* the host requests issued for kind and scope a
RequestsFor(a) ==
  {i \in 1..Len(requests) : requests[i].desc.name = a.name /\ Scope(requests[i].desc) = a.scope}

\* the entries object `self` tracks for kind and scope a
TrackedFor(self, a) ==
  {k \in 1..Len(this_permissions[self]) : this_permissions[self][k].value \in RequestsFor(a)}

Awaited(c) == {calls[c].promises[i] : i \in 1..Len(calls[c].promises)}
StateOf(id) == requests[id].state

(***************************************************************************)
(* C1. Dedup: however often a descriptor is accumulated (permission(), a   *)
(* shorthand, all()), the host receives exactly one request for it.        *)
(* PermissionManager.ts pushes a new request on every accumulation, so     *)
(* this fails.                                                             *)
(***************************************************************************)
C1_ExactlyOneRequest ==
  \A a \in AskedDescriptors : Cardinality(RequestsFor(a)) = 1

(***************************************************************************)
(* C2. The dedup key is kind plus scope: every accumulated (kind, scope)   *)
(* has exactly one tracked entry of its own, so distinct scopes of one     *)
(* kind are tracked independently and accumulating a scope again adds no   *)
(* entry.  Fails: read(["a","b"]) then read("a") tracks read:a twice.      *)
(***************************************************************************)
C2_OneEntryPerKindAndScope ==
  \A self \in handles : \A a \in AskedDescriptors : Cardinality(TrackedFor(self, a)) = 1

(***************************************************************************)
(* C3. Aggregate correctness: a settle() (also the one inside ensure())    *)
(* resolves true iff every request tracked at the call resolved            *)
(* 'granted'; when every one resolved and some resolved 'denied' or        *)
(* 'prompt' it resolves false.                                             *)
(***************************************************************************)
C3_AggregateCorrectness ==
  \A c \in 1..Len(calls) :
    /\ calls[c].settled = "true" <=> \A id \in Awaited(c) : StateOf(id) = "granted"
    /\ ( /\ \A id \in Awaited(c) : StateOf(id) \in GrantState
         /\ \E id \in Awaited(c) : StateOf(id) \in {"denied", "prompt"} )
       => calls[c].settled = "false"

\* a settle() over a granted and a 'prompt' request has resolved false
C3_Witness ==
  \E c \in 1..Len(calls) :
    /\ calls[c].op = "settle" /\ calls[c].result = "false"
    /\ \E id \in Awaited(c) : StateOf(id) = "granted"
    /\ \E id \in Awaited(c) : StateOf(id) = "prompt"

(***************************************************************************)
(* C4. ensure() fails with "Permission denied" iff its settle() resolved   *)
(* false; it resolves without error when settle() resolved true, in        *)
(* particular when nothing was accumulated; settle() itself reports a      *)
(* denial as the value false, never as a failure.                          *)
(***************************************************************************)
C4_EnsureContract ==
  \A c \in 1..Len(calls) :
    /\ calls[c].op = "ensure" =>
         /\ calls[c].result = "PermissionDenied" <=> calls[c].settled = "false"
         /\ calls[c].settled = "true" => calls[c].result = "ok"
         /\ accumulated = <<>> => calls[c].result = "ok"
    /\ calls[c].op = "settle" =>
         /\ calls[c].result # "PermissionDenied"
         /\ calls[c].settled = "false" => calls[c].result = "false"

\* an ensure() over a denied request has failed with "Permission denied"
C4_Witness ==
  \E c \in 1..Len(calls) :
    /\ calls[c].op = "ensure" /\ calls[c].result = "PermissionDenied"
    /\ \E id \in Awaited(c) : StateOf(id) = "denied"

(***************************************************************************)
(* C7. Host failures are data: when the host rejects a tracked request,    *)
(* settle() counts it as denied and resolves false; settle() never         *)
(* rejects.  The code does not catch the rejection, so this fails.         *)
(***************************************************************************)
C7_HostFailureIsDenial ==
  \A c \in 1..Len(calls) :
    calls[c].op = "settle" =>
      /\ calls[c].result # "rejected"
      /\ (\A id \in Awaited(c) : StateOf(id) # "pending")
           /\ (\E id \in Awaited(c) : StateOf(id) = "rejected")
         => calls[c].result = "false"

(***************************************************************************)
(* C8. Vacuous truth: while no accumulation method has been called, no     *)
(* host request exists, every settle() has resolved true and every         *)
(* ensure() has resolved without error.                                    *)
(***************************************************************************)
C8_VacuousTruth ==
  accumulated = <<>> =>
    /\ requests = <<>>
    /\ \A c \in 1..Len(calls) :
         /\ calls[c].op = "settle" => calls[c].result = "true"
         /\ calls[c].op = "ensure" => calls[c].result = "ok"

\* on a fresh registry a settle() resolved true and an ensure() resolved
C8_Witness ==
  /\ accumulated = <<>>
  /\ \E c \in 1..Len(calls) : calls[c].op = "settle" /\ calls[c].result = "true"
  /\ \E c \in 1..Len(calls) : calls[c].op = "ensure" /\ calls[c].result = "ok"

(***************************************************************************)
(* C9. all(): once all() has been called, every one of the seven kinds has *)
(* exactly one unscoped host request, whatever was accumulated before or   *)
(* after.  Fails: read() then all(), or all() twice, requests unscoped     *)
(* read twice.                                                             *)
(***************************************************************************)
C9_AllDedupsPerKind ==
  AskedAll \in AskedSet =>
    \A n \in PName : Cardinality(RequestsFor([name |-> n, scope |-> Undefined])) = 1

(***************************************************************************)
(* C5. Batch query: can(kind, scopeList) issues one host query per scope   *)
(* value and resolves true iff every one of them is reported granted.      *)
(* The code returns whether the answers include a false, so this fails.    *)
(***************************************************************************)
C5_BatchQueryIsAnd ==
  canResult.o.isArray =>
    /\ Len(canResult.queried) = Len(canResult.o.vals)
    /\ canResult.result <=>
         \A i \in 1..Len(canResult.states) : canResult.states[i] = "granted"

(***************************************************************************)
(* C6. Query independence: a can() call leaves the tracked set, the host's *)
(* request log, the settle()/ensure() calls and the accumulation history   *)
(* unchanged; while nothing has been accumulated the tracked set stays     *)
(* empty and every settle() has resolved true, however many can() calls    *)
(* were made.                                                              *)
(***************************************************************************)
C6_QueryIndependence ==
  /\ [](accumulated = <<>> =>
          /\ \A self \in handles : this_permissions[self] = <<>>
          /\ requests = <<>>
          /\ \A c \in 1..Len(calls) : calls[c].op = "settle" => calls[c].result = "true")
  /\ [][canResult' # canResult =>
          UNCHANGED <<this_permissions, requests, calls, accumulated>>]_vars

\* net was queried, nothing is tracked, and a settle() has resolved true
C6_Witness ==
  /\ canResult.n = "net" /\ canResult.o = Scalar("a")
  /\ accumulated = <<>>
  /\ \A self \in handles : this_permissions[self] = <<>>
  /\ \E c \in 1..Len(calls) : calls[c].op = "settle" /\ calls[c].result = "true"

(***************************************************************************)
(* C10. Point query: can(kind, scope) queries the host for exactly one     *)
(* descriptor, of that kind and (for env, read, write, net, run, ffi)      *)
(* carrying that scope, and resolves true iff the host reports 'granted'.  *)
(* The switch of the Map implementation drops the scope of write and ffi,  *)
(* so this fails there.                                                    *)
(***************************************************************************)
C10_PointQuery ==
  (canResult.n # "none" /\ ~canResult.o.isArray) =>
    /\ Len(canResult.queried) = 1
    /\ canResult.queried[1].name = canResult.n
    /\ canResult.n # "hrtime" => Scope(canResult.queried[1]) = canResult.o.vals[1]
    /\ canResult.result <=> canResult.states[1] = "granted"

(***************************************************************************)
(* C11. settle() waits for all and is order-independent: a settle() call   *)
(* has no verdict (true or false) while a request tracked at the call is   *)
(* unresolved, also when another one is already denied; once every one of  *)
(* them is answered its outcome is the fold of the answers alone, so it is *)
(* the same for every order in which the host gave them.                   *)
(***************************************************************************)
\* the outcome the answers to the requests awaited by call c determine
Fold(c) ==
  IF \E id \in Awaited(c) : StateOf(id) = "rejected" THEN "rejected"
  ELSE IF \A id \in Awaited(c) : StateOf(id) = "granted" THEN "true"
  ELSE "false"

C11_WaitsForAll ==
  \A c \in 1..Len(calls) :
    calls[c].op = "settle" =>
      /\ calls[c].result \in {"true", "false"} =>
           \A id \in Awaited(c) : StateOf(id) # "pending"
      /\ (\A id \in Awaited(c) : StateOf(id) # "pending") => calls[c].result = Fold(c)

\* a settle() is still waiting although one of its requests is already denied
C11_Witness ==
  \E c \in 1..Len(calls) :
    /\ calls[c].op = "settle" /\ calls[c].result = "pending"
    /\ \E id \in Awaited(c) : StateOf(id) = "denied"
    /\ \E id \in Awaited(c) : StateOf(id) = "pending"

(***************************************************************************)
(* C12. Accumulation is fire-and-forget and ordered: an accumulation       *)
(* method returns the registry it was called on in the same step in which  *)
(* it issues its host requests, which are then all unanswered; it leaves   *)
(* the earlier requests and the settle()/ensure() calls as they were; the  *)
(* requests it adds follow the earlier ones in the host's log and are in   *)
(* the order of the descriptors it was called with (the elements of a      *)
(* scope list in list order, the kinds of all() in enumeration order).     *)
(***************************************************************************)
\* the descriptors one accumulation call asks for, in order
Expand(ds) ==
  IF ds = <<AskedAll>>
    THEN [i \in 1..Len(permissions) |-> [name |-> permissions[i], scope |-> Undefined]]
    ELSE ds

\* kind and scope of the host requests from index i on, in the order issued
RequestedFrom(reqs, i) ==
  [k \in 1..(Len(reqs) - i + 1) |->
     [name |-> reqs[i + k - 1].desc.name, scope |-> Scope(reqs[i + k - 1].desc)]]

\* s can be obtained from t by leaving elements out
RECURSIVE IsSubSeq(_, _)
IsSubSeq(s, t) ==
  IF s = <<>> THEN TRUE
  ELSE IF t = <<>> THEN FALSE
  ELSE IF Head(s) = Head(t) THEN IsSubSeq(Tail(s), Tail(t))
  ELSE IsSubSeq(s, Tail(t))

C12_FireAndForgetInOrder ==
  [][accumulated' # accumulated =>
       /\ returned' = instance /\ returned' \in handles
       /\ calls' = calls
       /\ Len(requests') >= Len(requests)
       /\ \A i \in 1..Len(requests) : requests'[i] = requests[i]
       /\ \A i \in (Len(requests) + 1)..Len(requests') : requests'[i].state = "pending"
       /\ IsSubSeq(RequestedFrom(requests', Len(requests) + 1),
                   Expand(accumulated'[Len(accumulated')]))]_vars

\* write("a") then read(["a","b"]) have returned the registry; the host holds
\* the three requests in that order, none answered
C12_Witness ==
  /\ accumulated = <<Asked("write", Scalar("a")), Asked("read", Array(<<"a", "b">>))>>
  /\ returned = instance
  /\ RequestedFrom(requests, 1) =
       <<[name |-> "write", scope |-> "a"], [name |-> "read", scope |-> "a"],
         [name |-> "read", scope |-> "b"]>>
  /\ \A i \in 1..Len(requests) : requests[i].state = "pending"

(***************************************************************************)
(* C13. The verdict is recomputed, not cached: when a settle() resolved    *)
(* true and a later settle() also awaits a request, accumulated since,     *)
(* that the host denied, the later one resolves false once its requests    *)
(* are all answered; two calls that await the same requests have the same  *)
(* outcome, whatever was answered to calls made before them.               *)
(***************************************************************************)
C13_VerdictRecomputed ==
  \A c1, c2 \in 1..Len(calls) :
    /\ ( /\ c1 < c2 /\ calls[c1].settled = "true"
         /\ \E id \in Awaited(c2) \ Awaited(c1) : StateOf(id) = "denied"
         /\ \A id \in Awaited(c2) : StateOf(id) \in GrantState )
       => calls[c2].settled = "false"
    /\ Awaited(c1) = Awaited(c2) => calls[c1].settled = calls[c2].settled

\* a settle() resolved true, then a denied request was accumulated and the
\* next settle() resolved false
C13_Witness ==
  \E c1, c2 \in 1..Len(calls) :
    /\ c1 < c2 /\ calls[c1].op = "settle" /\ calls[c2].op = "settle"
    /\ calls[c1].result = "true" /\ calls[c2].result = "false"
    /\ \E id \in Awaited(c2) \ Awaited(c1) : StateOf(id) = "denied"

(***************************************************************************)
(* C14. Denial is permanent: once a settle() (also the one inside an       *)
(* ensure()) has resolved false, every later settle() on the registry      *)
(* resolves false and every later ensure() fails with "Permission denied", *)
(* whatever is accumulated afterwards: a later call is waiting or has      *)
(* that outcome.  Fails: a request accumulated after the verdict that the  *)
(* host rejects makes the later settle() reject (the rejection is not      *)
(* caught, C7).                                                            *)
(***************************************************************************)
C14_DenialPermanent ==
  \A c1, c2 \in 1..Len(calls) :
    (c1 < c2 /\ calls[c1].self = calls[c2].self /\ calls[c1].settled = "false") =>
      /\ calls[c2].settled \in {"pending", "false"}
      /\ calls[c2].op = "ensure" => calls[c2].result \in {"pending", "PermissionDenied"}

\* C14, the moves of a request: once the host has answered a request, its
\* state never changes again
C14_NoWayBack ==
  [][\A id \in 1..Len(requests) :
       requests[id].state # "pending" => requests'[id] = requests[id]]_vars

\* C14, no request is retried: the host is not asked again for a descriptor
\* it has denied.  Fails as C1 does: accumulating the descriptor once more
\* issues a new host request for it.
C14_NoRetry ==
  [][\A id \in 1..Len(requests) :
       requests[id].state = "denied" =>
         \A j \in (Len(requests) + 1)..Len(requests') :
           requests'[j].desc # requests[id].desc]_vars

(***************************************************************************)
(* C15. Monotonic accumulation: no step (an accumulation, settle(),        *)
(* ensure(), an answer of the host, getInstance()) removes or replaces an  *)
(* entry of a registry's tracked collection or drops a registry: every     *)
(* entry tracked before the step is tracked after it, in its place.        *)
(***************************************************************************)
C15_MonotonicAccumulation ==
  [][/\ Len(this_permissions') >= Len(this_permissions)
     /\ \A self \in 1..Len(this_permissions) :
          /\ Len(this_permissions'[self]) >= Len(this_permissions[self])
          /\ \A k \in 1..Len(this_permissions[self]) :
               this_permissions'[self][k] = this_permissions[self][k]]_vars

\* after two accumulations, a settle()/ensure() call and an answer of the
\* host the registry still tracks every request ever issued
C15_Witness ==
  /\ instance # NoInstance
  /\ Len(accumulated) >= 2 /\ Len(calls) >= 1 /\ Answered(requests) >= 1
  /\ values(this_permissions[instance]) = [i \in 1..Len(requests) |-> i]

(***************************************************************************)
(* C16. settle() is repeatable: a settle() call issues no host request     *)
(* and leaves the tracked collection and the earlier calls' requests as    *)
(* they were; a settle() that follows another with no accumulation in      *)
(* between (it awaits the same requests) has the same outcome as that one. *)
(***************************************************************************)
C16_SettleRepeatable ==
  /\ [][Len(calls') > Len(calls) =>
          /\ requests' = requests
          /\ this_permissions' = this_permissions
          /\ accumulated' = accumulated]_vars
  /\ [](\A c \in 1..(Len(calls) - 1) :
          ( /\ calls[c].op = "settle" /\ calls[c + 1].op = "settle"
            /\ calls[c].self = calls[c + 1].self
            /\ calls[c + 1].promises = calls[c].promises )
          => calls[c + 1].result = calls[c].result)

\* two settle() calls in a row over a denied request: both resolved false and
\* the host was asked once
C16_Witness ==
  \E c \in 1..(Len(calls) - 1) :
    /\ calls[c].op = "settle" /\ calls[c + 1].op = "settle"
    /\ calls[c].promises = <<1>> /\ calls[c + 1].promises = <<1>>
    /\ calls[c].result = "false" /\ calls[c + 1].result = "false"
    /\ Len(requests) = 1 /\ StateOf(1) = "denied"

(***************************************************************************)
(* C17. Settle liveness: a settle() or ensure() call whose tracked         *)
(* requests have all been resolved by the host eventually resolves with    *)
(* its verdict (ensure(): returns or fails with "Permission denied"); a    *)
(* call does not complete while a request it tracked is unresolved, so it  *)
(* never completes when that request never resolves.  The second part      *)
(* fails: when the host rejects one tracked request, Promise.all rejects   *)
(* and the call completes while another request is still unresolved (the   *)
(* rejection is not caught, C7).                                           *)
(***************************************************************************)
\* C17, progress: resolved requests lead to a verdict
C17_EventuallyResolves ==
  \A c \in 1..MaxOps :
    (c \in 1..Len(calls) /\ \A id \in Awaited(c) : StateOf(id) \in GrantState)
      ~> (c \in 1..Len(calls) /\ calls[c].result \in {"true", "false", "ok", "PermissionDenied"})

\* C17, no timeout or cancellation: an unresolved request blocks the call
C17_BlockedWhileUnresolved ==
  [](\A c \in 1..Len(calls) :
       (\E id \in Awaited(c) : StateOf(id) = "pending") => calls[c].result = "pending")

C17_SettleLiveness == C17_EventuallyResolves /\ C17_BlockedWhileUnresolved

(***************************************************************************)
(* C18. settle() operates on a snapshot: a call awaits exactly the         *)
(* requests its registry tracks at the moment of the call, and that set    *)
(* never changes afterwards; an accumulation leaves the calls untouched;   *)
(* as soon as the requests of the snapshot are all answered the call has   *)
(* resolved, with the fold of their answers, whatever was accumulated      *)
(* since and whether or not it is answered.  A request accumulated later   *)
(* is awaited by the calls made after it.                                  *)
(***************************************************************************)
C18_Snapshot ==
  /\ [][/\ Len(calls') > Len(calls) =>
             calls'[Len(calls')].promises =
               values(this_permissions[calls'[Len(calls')].self])
        /\ \A c \in 1..Len(calls) : calls'[c].promises = calls[c].promises
        /\ accumulated' # accumulated => calls' = calls]_vars
  /\ [](\A c \in 1..Len(calls) :
          (\A id \in Awaited(c) : StateOf(id) # "pending") =>
            calls[c].settled = Fold(c))

\* a settle() made when only request 1 was tracked resolved true although
\* request 2, accumulated since, was denied; the next settle() resolved false
C18_Witness ==
  \E c1, c2 \in 1..Len(calls) :
    /\ c1 < c2 /\ calls[c1].op = "settle" /\ calls[c2].op = "settle"
    /\ calls[c1].promises = <<1>> /\ calls[c1].result = "true"
    /\ calls[c2].promises = <<1, 2>> /\ calls[c2].result = "false"
    /\ StateOf(2) = "denied"

(***************************************************************************)
(* C19. Descriptor factory, list expansion: for a kind and a list of scope *)
(* values the factory returns a list with exactly one descriptor per       *)
(* element, in input order, each of that kind and carrying that element    *)
(* as its scope, repeated elements included; for one value or none it      *)
(* returns one descriptor; a descriptor of kind hrtime carries no scope    *)
(* whatever the scope argument is.                                         *)
(***************************************************************************)
C19_ListExpansion ==
  built.fn # "none" =>
    /\ built.result.isArray = built.o.isArray
    /\ Len(built.result.vals) = Len(built.o.vals)
    /\ \A i \in 1..Len(built.o.vals) :
         /\ built.result.vals[i].name = built.name
         /\ Scope(built.result.vals[i]) =
              IF built.name = "hrtime" THEN Undefined ELSE built.o.vals[i]
         /\ built.name = "hrtime" => built.result.vals[i].field = "none"

\* desc("read", ["a","b","a"]) returned three descriptors, read:a twice
C19_Witness ==
  /\ built.fn = "desc" /\ built.name = "read"
  /\ built.o = Array(<<"a", "b", "a">>)
  /\ Len(built.result.vals) = 3
  /\ built.result.vals[1] = built.result.vals[3]
  /\ Scope(built.result.vals[2]) = "b"

(***************************************************************************)
(* C20. Single shared registry: before the first getInstance() there is no *)
(* registry; the first call creates it and every call returns that same    *)
(* object, so there is exactly one tracked collection however many handles *)
(* were obtained; a settle()/ensure() made through any handle awaits every *)
(* request accumulated so far through any handle.                          *)
(***************************************************************************)
C20_SingleRegistry ==
  /\ [](/\ got = <<>> => instance = NoInstance /\ this_permissions = <<>>
        /\ got # <<>> => instance # NoInstance /\ Len(this_permissions) = 1
        /\ \A i \in 1..Len(got) : got[i] = instance /\ got[i] = got[1])
  /\ [][Len(calls') > Len(calls) =>
          {calls'[Len(calls')].promises[i] : i \in 1..Len(calls'[Len(calls')].promises)}
            = 1..Len(requests)]_vars

\* getInstance() was called at least twice, a request was accumulated, and a
\* settle() awaits it
C20_Witness ==
  /\ Len(got) >= 2 /\ got[1] = got[2]
  /\ Len(requests) >= 1
  /\ \E c \in 1..Len(calls) : calls[c].op = "settle" /\ Awaited(c) = 1..Len(requests)

====
